---- MODULE Spec2Model ----
(***************************************************************************)
(* Model of the Run state machine, the chat continuation (nextChat) and    *)
(* the HTTP record stream handler of node-gptscript (src/src/gptscript.ts),*)
(* and of the statics of the GPTScript class: the server subprocess, its   *)
(* address and the count of instances.                                     *)
(*                                                                         *)
(* Text is modelled as a sequence of tokens.  A token is one character     *)
(* (a letter, a space, a newline, a brace, a quote) or a fixed piece of    *)
(* text that the handlers treat as a unit (the "data:" of the SSE prefix,  *)
(* the [DONE] sentinel, the key text that opens a record).                 *)
(***************************************************************************)
EXTENDS Integers, Sequences, FiniteSets, TLC

VARIABLES runs, chans, opts, last, facade

vars == <<runs, chans, opts, last, facade>>

(***************************************************************************)
(* Bounds.                                                                 *)
(***************************************************************************)
MaxRuns == 3
MaxData == 2
MaxCallbacks == 2
MaxFacades == 3
MaxCloses == 2
HealthAttempts == 20

(***************************************************************************)
(* Tokens.                                                                 *)
(***************************************************************************)
NL == "\n"
SP == " "
LB == "{"
RB == "}"
QUOTE == "\""
DATA == "data:"
DONE == "[DONE]"

Letters == {"a", "b"}
PayloadChars == Letters \cup {SP}

\* JavaScript undefined, for fields that hold text
Absent == <<"undefined">>

\* JavaScript truthiness of a text-or-undefined value
Truthy(v) == v # Absent /\ v # <<>>

(***************************************************************************)
(* enum RunState, enum RunEventType                                        *)
(***************************************************************************)
Creating == "creating"
Running == "running"
Continue == "continue"
Finished == "finished"
Error == "error"
RunState == {Creating, Running, Continue, Finished, Error}

EvEvent == "event"
EvRunStart == "runStart"
EvRunFinish == "runFinish"
EvCallProgress == "callProgress"
EvPrompt == "prompt"
RunEventType == {EvEvent, EvRunStart, EvRunFinish, EvCallProgress, EvPrompt}

(***************************************************************************)
(* Records of the stream.  The text of a record is                         *)
(*     { kind payload }                                                    *)
(* where kind is the token for the keys of the record and payload is the   *)
(* content of its one string value.                                        *)
(***************************************************************************)
KStderr == "stderr"
KStdoutStr == "stdout"
KChat == "stdout.state"
KChatDone == "stdout.done"
KRunStart == "run.runStart"
KRunOut == "run.runFinish.output"
KRunErr == "run.runFinish.error"
KCall == "call.callProgress.id"
KPrompt == "prompt.message"
KOther == "other"
\* call records with a second field: calls of id "a" with an input or an
\* output, and a call whose payload is its id and which has a parent
KCallIn == "call.callProgress.a.input"
KCallOut == "call.callProgress.a.output"
KCallSub == "call.callProgress.id.parentID"
CallKinds == {KCall, KCallIn, KCallOut, KCallSub}
\* a record with a stderr field and a stdout field: the payload is the text
\* of stderr and the state of a stdout that is not done
KBoth == "stderr.stdout.state"
Kinds == {KStderr, KStdoutStr, KChat, KChatDone, KRunStart, KRunOut, KRunErr, KPrompt, KOther,
          KBoth} \cup CallKinds

Rec(kind, p) == <<LB, kind>> \o p \o <<RB>>

\* String.prototype.trim
RECURSIVE TrimLeft(_)
TrimLeft(s) == IF s # <<>> /\ Head(s) \in {SP, NL} THEN TrimLeft(Tail(s)) ELSE s

RECURSIVE TrimRight(_)
TrimRight(s) ==
    IF s # <<>> /\ s[Len(s)] \in {SP, NL} THEN TrimRight(SubSeq(s, 1, Len(s) - 1)) ELSE s

Trim(s) == TrimRight(TrimLeft(s))

\* line.replace(/^(data: )/, "")
StripData(line) ==
    IF Len(line) >= 2 /\ line[1] = DATA /\ line[2] = SP
    THEN SubSeq(line, 3, Len(line))
    ELSE line

\* String.prototype.split("\n")
RECURSIVE SplitNL(_, _)
SplitNL(s, cur) ==
    IF s = <<>> THEN <<cur>>
    ELSE IF Head(s) = NL THEN <<cur>> \o SplitNL(Tail(s), <<>>)
    ELSE SplitNL(Tail(s), Append(cur, Head(s)))

Split(s) == SplitNL(s, <<>>)

\* JSON.parse succeeds
Parses(c) ==
    /\ Len(c) >= 3
    /\ c[1] = LB
    /\ c[2] \in Kinds
    /\ c[Len(c)] = RB
    /\ \A k \in 3..(Len(c) - 1) : c[k] \in PayloadChars

NoFrame == [type |-> "none", output |-> Absent, error |-> Absent, message |-> Absent,
            id |-> Absent, parentID |-> Absent, input |-> Absent]

\* JSON.parse: the object a record text denotes
Parse(c) ==
    LET kind == c[2]
        p == SubSeq(c, 3, Len(c) - 1)
    IN [stderr |-> IF kind \in {KStderr, KBoth} THEN p ELSE Absent,
        stdout |-> IF kind = KStdoutStr THEN [sort |-> "string", str |-> p, done |-> FALSE, state |-> Absent]
                   ELSE IF kind \in {KChat, KBoth}
                   THEN [sort |-> "object", str |-> Absent, done |-> FALSE, state |-> p]
                   ELSE IF kind = KChatDone THEN [sort |-> "object", str |-> Absent, done |-> TRUE, state |-> p]
                   ELSE [sort |-> "absent", str |-> Absent, done |-> FALSE, state |-> Absent],
        env |-> IF kind \in {KRunStart, KRunOut, KRunErr} THEN "run"
                ELSE IF kind \in CallKinds THEN "call"
                ELSE IF kind = KPrompt THEN "prompt"
                ELSE "none",
        f |-> IF kind = KRunStart THEN [NoFrame EXCEPT !.type = EvRunStart]
              ELSE IF kind = KRunOut THEN [NoFrame EXCEPT !.type = EvRunFinish, !.output = p]
              ELSE IF kind = KRunErr THEN [NoFrame EXCEPT !.type = EvRunFinish, !.error = p]
              ELSE IF kind = KCall THEN [NoFrame EXCEPT !.type = EvCallProgress, !.id = p]
              ELSE IF kind = KCallIn
              THEN [NoFrame EXCEPT !.type = EvCallProgress, !.id = <<"a">>, !.input = p]
              ELSE IF kind = KCallOut
              THEN [NoFrame EXCEPT !.type = EvCallProgress, !.id = <<"a">>, !.output = p]
              ELSE IF kind = KCallSub
              THEN [NoFrame EXCEPT !.type = EvCallProgress, !.id = p, !.parentID = <<"p">>]
              ELSE IF kind = KPrompt THEN [NoFrame EXCEPT !.type = EvPrompt, !.message = p]
              ELSE NoFrame]

\* JSON.stringify of a string
Stringify(s) == <<QUOTE>> \o s \o <<QUOTE>>

(***************************************************************************)
(* class Run.  A Run object is a record; runs is the sequence of the Run   *)
(* objects constructed so far, in construction order.  promise and req     *)
(* are the index in chans of the request they belong to (0: not set);      *)
(* held tells that the caller still has a reference to the object, sub     *)
(* that the object is of the subclass RunSubcommand.                       *)
(***************************************************************************)
NoCallbacks == [t \in RunEventType |-> <<>>]

\* the tools of a Run: the name of a file, a list of tool definitions or one
\* tool definition; val is the JSON text of the value
FileTool == [sort |-> "string", val |-> <<"t">>]
ToolChoices ==
    { FileTool,
      [sort |-> "array", val |-> <<"[", "t", "]">>],
      [sort |-> "def", val |-> <<"t">>] }

NewRun ==
    [state |-> Creating, err |-> <<>>, stdout |-> Absent, stderr |-> Absent,
     chatState |-> Absent, parentCallId |-> <<>>, calls |-> <<>>,
     promise |-> 0, req |-> 0, callbacks |-> NoCallbacks, delivered |-> <<>>,
     held |-> TRUE, sub |-> FALSE, tools |-> FileTool]

\* a new object of class RunSubcommand, which extends Run
NewRunSubcommand == [NewRun EXCEPT !.sub = TRUE]

\* a Run the caller holds no reference to any more: nothing of it can be observed
Dropped == [NewRun EXCEPT !.held = FALSE]

\* Run.emit: every callback registered for the type is called with the frame
Emit(run, type, f) ==
    [run EXCEPT !.delivered =
        @ \o [k \in 1..Len(run.callbacks[type]) |-> <<run.callbacks[type][k], type, f>>]]

PromptErr(message) == <<"prompt occurred when prompt was not allowed: Message: ">> \o message

\* SetCall that adds an entry for every record
SetCall_Appends(calls, f) == Append(calls, f)

\* the call map after this.calls[f.id] = f; calls is kept as a sequence of frames, one per id
SetCall(calls, f) ==
    IF \E k \in 1..Len(calls) : calls[k].id = f.id
    THEN [k \in 1..Len(calls) |-> IF calls[k].id = f.id THEN f ELSE calls[k]]
    ELSE Append(calls, f)

\* ProcessStdout that stores out.state as it is
ProcessStdout_RawState(run, out) ==
    IF out.sort = "string"
    THEN IF Trim(out.str) = <<>>
         THEN [run |-> run, ret |-> <<>>]
         ELSE [run |-> run, ret |-> out.str]
    ELSE IF ~out.done
         THEN [run |-> [run EXCEPT !.chatState = out.state, !.state = Continue],
               ret |-> <<>>]
         ELSE [run |-> [run EXCEPT !.state = Finished, !.chatState = Absent],
               ret |-> <<>>]

\* ProcessStdout that keeps the chat state when the turn is done
ProcessStdout_KeepsToken(run, out) ==
    IF out.sort = "string"
    THEN IF Trim(out.str) = <<>>
         THEN [run |-> run, ret |-> <<>>]
         ELSE [run |-> run, ret |-> out.str]
    ELSE IF ~out.done
         THEN [run |-> [run EXCEPT !.chatState = Stringify(out.state), !.state = Continue],
               ret |-> <<>>]
         ELSE [run |-> [run EXCEPT !.state = Finished],
               ret |-> <<>>]

\* Run.processStdout: the Run afterwards and the returned carry-over
ProcessStdout(run, out) ==
    IF out.sort = "string"
    THEN IF Trim(out.str) = <<>>
         THEN [run |-> run, ret |-> <<>>]
         ELSE [run |-> run, ret |-> out.str]
    ELSE IF ~out.done
         THEN [run |-> [run EXCEPT !.chatState = Stringify(out.state), !.state = Continue],
               ret |-> <<>>]
         ELSE [run |-> [run EXCEPT !.state = Finished, !.chatState = Absent],
               ret |-> <<>>]

\* JSON.stringify of the object of a primary-output record
StringifyOut(out) ==
    <<LB, IF out.done THEN "done" ELSE "state">>
        \o (IF Truthy(out.state) THEN out.state ELSE <<>>) \o <<RB>>

\* RunSubcommand.processStdout
SubProcessStdout(run, out) ==
    IF out.sort = "string"
    THEN [run |-> [run EXCEPT !.stdout = (IF Truthy(@) THEN @ ELSE <<>>) \o out.str],
          ret |-> <<>>]
    ELSE [run |-> [run EXCEPT !.stdout = StringifyOut(out)], ret |-> <<>>]

\* this.processStdout(e.stdout): the method of the class of the object
ProcessStdoutOf(run, out) ==
    IF run.sub THEN SubProcessStdout(run, out) ELSE ProcessStdout(run, out)

\* PromptRefused without the call of this.close()
PromptRefused_NoClose(run, f) ==
    [run |-> [run EXCEPT !.state = Error, !.err = PromptErr(f.message)],
     ret |-> <<>>, closes |-> 0]

\* PromptRefused with the frame fanned out before the return
PromptRefused_Emits(run, f) ==
    [run |-> Emit(Emit([run EXCEPT !.state = Error, !.err = PromptErr(f.message)], EvEvent, f),
                  f.type, f),
     ret |-> <<>>, closes |-> 1]

\* Run.emitEvent, the frame is a prompt and the options do not allow prompts:
\* the Run afterwards, the returned carry-over, the calls of this.close()
PromptRefused(run, f) ==
    [run |-> [run EXCEPT !.state = Error, !.err = PromptErr(f.message)],
     ret |-> <<>>, closes |-> 1]

\* ApplyFrame with a call frame taken for the start of the run
ApplyFrame_CallStartsRun(run, f) ==
    IF f.type = EvRunStart \/ f.type = EvCallProgress
    THEN [run EXCEPT !.state = Running]
    ELSE IF f.type = EvRunFinish
    THEN IF Truthy(f.error)
         THEN [run EXCEPT !.state = Error, !.err = f.error]
         ELSE [run EXCEPT !.state = Finished,
                          !.stdout = IF Truthy(f.output) THEN f.output ELSE <<>>]
    ELSE run

\* ApplyFrame with the latest call without a parent taken for the root
ApplyFrame_RootIsLatest(run, f) ==
    IF f.type = EvRunStart
    THEN [run EXCEPT !.state = Running]
    ELSE IF f.type = EvRunFinish
    THEN IF Truthy(f.error)
         THEN [run EXCEPT !.state = Error, !.err = f.error]
         ELSE [run EXCEPT !.state = Finished,
                          !.stdout = IF Truthy(f.output) THEN f.output ELSE <<>>]
    ELSE IF f.type = EvCallProgress
    THEN [run EXCEPT !.parentCallId = IF ~Truthy(f.parentID) THEN f.id ELSE @,
                     !.calls = SetCall(@, f)]
    ELSE run

\* Run.emitEvent, what a frame does to the state, the output and the call map
ApplyFrame(run, f) ==
    IF f.type = EvRunStart
    THEN [run EXCEPT !.state = Running]
    ELSE IF f.type = EvRunFinish
    THEN IF Truthy(f.error)
         THEN [run EXCEPT !.state = Error, !.err = f.error]
         ELSE [run EXCEPT !.state = Finished,
                          !.stdout = IF Truthy(f.output) THEN f.output ELSE <<>>]
    ELSE IF f.type = EvCallProgress
    THEN [run EXCEPT !.parentCallId = IF ~Truthy(f.parentID) /\ @ = <<>> THEN f.id ELSE @,
                     !.calls = SetCall(@, f)]
    ELSE run

\* Deliver with the callbacks of the type of the frame called first
Deliver_TypeFirst(run, f) ==
    [run |-> Emit(Emit(run, f.type, f), EvEvent, f), ret |-> <<>>, closes |-> 0]

\* Run.emitEvent, the fan-out: the catch-all callbacks, then those of the type
Deliver(run, f) ==
    [run |-> Emit(Emit(run, EvEvent, f), f.type, f), ret |-> <<>>, closes |-> 0]

\* Run.emitEvent on one record text: the Run afterwards, the returned
\* carry-over and the number of times this.close() was called
EmitEvent(run, promptAllowed, event) ==
    IF ~Parses(event) \/ Parse(event).env = "none"
    THEN [run |-> run, ret |-> event, closes |-> 0]
    ELSE LET f == Parse(event).f IN
         IF f.type = EvPrompt /\ ~promptAllowed
         THEN PromptRefused(run, f)
         ELSE Deliver(ApplyFrame(run, f), f)

\* the body of the loop of the res 'data' handler over the lines from line k on
RECURSIVE ProcLines(_, _, _, _)
ProcLines(ctx, promptAllowed, lines, k) ==
    IF k > Len(lines) THEN ctx
    ELSE LET c == Trim(StripData(lines[k])) IN
         IF c = <<>> THEN ProcLines(ctx, promptAllowed, lines, k + 1)
         ELSE IF c = <<DONE>> THEN ctx
         ELSE IF ~Parses(c) THEN [ctx EXCEPT !.frag = c]
         ELSE LET e == Parse(c) IN
              IF Truthy(e.stderr)
              THEN ProcLines([ctx EXCEPT !.run.stderr = (IF Truthy(@) THEN @ ELSE <<>>) \o e.stderr,
                                         !.frag = <<>>],
                             promptAllowed, lines, k + 1)
              ELSE IF e.stdout.sort = "object" \/ (e.stdout.sort = "string" /\ Truthy(e.stdout.str))
              THEN LET r == ProcessStdoutOf(ctx.run, e.stdout) IN
                   ProcLines([ctx EXCEPT !.run = r.run, !.frag = r.ret], promptAllowed, lines, k + 1)
              ELSE LET r == EmitEvent(ctx.run, promptAllowed, c) IN
                   ProcLines([run |-> r.run, frag |-> r.ret, closes |-> ctx.closes + r.closes],
                             promptAllowed, lines, k + 1)

\* the res 'data' handler: the Run, the carry-over and the close() calls after one chunk
DataHandler(run, promptAllowed, frag, chunk) ==
    ProcLines([run |-> run, frag |-> frag, closes |-> 0], promptAllowed, Split(frag \o chunk), 1)

(***************************************************************************)
(* The session.                                                            *)
(*   runs   the Run objects                                                *)
(*   chans  the requests issued by Run.request, in order: each is one      *)
(*          http.request with the closure of its promise (frag, resolve,   *)
(*          reject) and the state of its transport                         *)
(*   opts   the RunOpts object, which every Run of the session shares      *)
(*   last   the last operation and what it returned                        *)
(***************************************************************************)
MaxReq == MaxRuns

Inputs == {<<>>, <<"b">>}
HangUpMsg == <<"socket hang up">>
ErrMsgs == {<<>>, HangUpMsg}
AbortedMsg == <<"Run has been aborted">>
CallerToken == Stringify(<<"b">>)

Line(r) == r \o <<NL>>

\* the chunks of the stream of one Run
Chunks ==
    { Line(Rec(KRunStart, <<>>)),
      Line(Rec(KRunOut, <<>>)),
      Line(Rec(KRunOut, <<"a">>)),
      Line(Rec(KRunErr, <<"a">>)),
      Line(Rec(KChat, <<"a">>)),
      Line(Rec(KChatDone, <<>>)),
      Line(Rec(KCall, <<"a">>)),
      Line(Rec(KPrompt, <<"a">>)),
      Line(Rec(KStderr, <<"a">>)),
      Line(<<DATA, SP>> \o Rec(KRunOut, <<"a">>)) \o Line(<<DATA, SP, DONE>>),
      Line(Rec(KPrompt, <<"a">>)) \o Line(Rec(KRunStart, <<>>)),
      Line(Rec(KRunErr, <<"a">>)) \o Line(Rec(KChat, <<"a">>)) }

\* the chunks that end a turn of a chat
TurnChunks ==
    { Line(Rec(KRunOut, <<"a">>)),
      Line(Rec(KRunErr, <<"a">>)),
      Line(Rec(KChat, <<"a">>)),
      Line(Rec(KRunOut, <<"a">>)) \o Line(Rec(KChat, <<"a">>)) }

\* the chunks of the records that are fanned out
EventChunks ==
    { Line(Rec(KRunStart, <<>>)),
      Line(Rec(KCall, <<"a">>)),
      Line(Rec(KPrompt, <<"a">>)),
      Line(Rec(KStderr, <<"a">>)) }

NewChan(r, body) ==
    [run |-> r, body |-> body, phase |-> "sent", frag |-> <<>>,
     settled |-> "pending", value |-> Absent, destroyed |-> FALSE, fed |-> <<>>]

\* a request of a Run that was dropped
DroppedChan(r) == [NewChan(r, <<>>) EXCEPT !.phase = "dropped"]

\* resolve(v) / reject(v) of the promise of a request: a settled promise stays as it is
Settle(ch, how, v) ==
    IF ch.settled = "pending" THEN [ch EXCEPT !.settled = how, !.value = v] ELSE ch

\* what last holds: the operation, the Run and the request it was on, its
\* argument, what it returned, and from before the operation: the Run, the
\* chat state of the options, the number of Runs and of requests made
Label(op, r, c, arg, res) ==
    [op |-> op, run |-> r, ch |-> c, arg |-> arg, res |-> res,
     pre |-> IF r \in 1..Len(runs) THEN runs[r] ELSE NewRun,
     token |-> opts.chatState, made |-> <<Len(runs), Len(chans)>>]

RunIds == 1..Len(runs)
ChanIds == 1..Len(chans)

NumCallbacks(run) == Len(run.callbacks[EvEvent]) + Len(run.callbacks[EvRunStart])
                     + Len(run.callbacks[EvRunFinish]) + Len(run.callbacks[EvCallProgress])
                     + Len(run.callbacks[EvPrompt])

(***************************************************************************)
(* The statics of the GPTScript class.  An address is a sequence of        *)
(* tokens; env says whether GPTSCRIPT_URL is set and whether               *)
(* GPTSCRIPT_DISABLE_SERVER is "true".                                     *)
(***************************************************************************)
Scheme == "http://"
EnvAddr == <<"h:1">>
AnyPort == <<"127.0.0.1:0">>
NoEnv == [url |-> FALSE, disable |-> FALSE]

\* "http://" + (process.env.GPTSCRIPT_URL || "127.0.0.1:0")
BaseURL(env) == <<Scheme>> \o (IF env.url THEN EnvAddr ELSE AnyPort)

\* serverURL.replace("http://", "")
ListenAddress(url) == IF url # <<>> /\ Head(url) = Scheme THEN Tail(url) ELSE url

\* the address the subprocess p listens on: the one it was given, with a
\* port of its own for port 0
BoundAddress(p, listen) == IF listen = AnyPort THEN <<"127.0.0.1:", ToString(p)>> ELSE listen

\* url.substring(url.indexOf("=") + 1) for a url that includes "="
AfterEquals(url) ==
    IF \E k \in 1..Len(url) : url[k] = "="
    THEN LET k == CHOOSE n \in 1..Len(url) : url[n] = "=" /\ \A m \in 1..(n - 1) : url[m] # "="
         IN SubSeq(url, k + 1, Len(url))
    ELSE url

\* the statics before the first construction, and no instance made: closes
\* holds for each instance the number of times it was closed, op and arg the
\* last operation and the instance or subprocess it was on
\* the global options given to a constructor: none, or an APIKey
GlobalOptsChoices == {Absent, <<"k">>}

\* no operation of an instance under way
NoCall == [f |-> 0, pc |-> "idle", left |-> 0, attempts |-> 0, failures |-> 0, url |-> <<>>,
           applied |-> Absent]

\* for each instance: given holds the global options it was constructed
\* with, ready its ready field, passed whether a health check of its own
\* has succeeded; call is the operation under way or the last one
NewFacade(env) ==
    [env |-> env, serverURL |-> <<>>, procs |-> <<>>, serverProcess |-> 0,
     instanceCount |-> 0, closes |-> <<>>, op |-> "init", arg |-> 0,
     given |-> <<>>, ready |-> <<>>, passed |-> <<>>, call |-> NoCall]

FacadeIds == 1..Len(facade.closes)
ProcIds == 1..Len(facade.procs)
OpenFacades == {f \in FacadeIds : facade.closes[f] = 0}
AliveProcs == {p \in ProcIds : facade.procs[p].alive}

\* whether the constructor spawns
Spawns(count, env) == count = 1 /\ ~env.disable

\* new GPTScript(opts): globalOptsToEnv puts opts into the environment of
\* the subprocess that is spawned
Construct(g) ==
    LET count == facade.instanceCount + 1
        url == IF facade.serverURL = <<>> THEN BaseURL(facade.env) ELSE facade.serverURL
        spawned == Append(facade.procs,
                          [alive |-> TRUE, listen |-> ListenAddress(url),
                           listening |-> TRUE, announced |-> FALSE, env |-> g])
    IN /\ Len(facade.closes) < MaxFacades
       /\ facade' = [facade EXCEPT
               !.instanceCount = count,
               !.serverURL = url,
               !.procs = IF Spawns(count, facade.env) THEN spawned ELSE @,
               !.serverProcess = IF Spawns(count, facade.env) THEN Len(spawned) ELSE @,
               !.closes = Append(@, 0),
               !.given = Append(@, g),
               !.ready = Append(@, FALSE),
               !.passed = Append(@, FALSE),
               !.op = "construct",
               !.arg = Len(facade.closes) + 1]
       /\ UNCHANGED <<runs, chans, opts, last>>

\* the stderr 'data' listener of subprocess p: the subprocess writes its
\* address once, bare or after "addr="; the listeners removed are those of
\* the subprocess that serverProcess names
Announce(p, keyed) ==
    LET addr == BoundAddress(p, facade.procs[p].listen)
        data == IF keyed THEN <<"addr", "=">> \o addr ELSE addr
    IN /\ facade.procs[p].listening
       /\ ~facade.procs[p].announced
       /\ facade' = [facade EXCEPT
               !.serverURL = <<Scheme>> \o AfterEquals(data),
               !.procs = [[@ EXCEPT ![p].announced = TRUE]
                             EXCEPT ![facade.serverProcess].listening = FALSE],
               !.op = "announce",
               !.arg = p]
       /\ UNCHANGED <<runs, chans, opts, last>>

\* GPTScript.close that kills the subprocess whatever the count
FacadeClose_KillsAlways(f) ==
    /\ facade.closes[f] < MaxCloses
    /\ facade' = [facade EXCEPT
            !.instanceCount = @ - 1,
            !.serverURL = IF facade.serverProcess # 0 THEN BaseURL(facade.env) ELSE @,
            !.procs = IF facade.serverProcess # 0
                      THEN [@ EXCEPT ![facade.serverProcess].alive = FALSE] ELSE @,
            !.closes = [@ EXCEPT ![f] = @ + 1],
            !.op = "close",
            !.arg = f]
    /\ UNCHANGED <<runs, chans, opts, last>>

\* GPTScript.close on instance f
FacadeClose(f) ==
    LET count == facade.instanceCount - 1
        last_one == count = 0 /\ facade.serverProcess # 0
    IN /\ facade.closes[f] < MaxCloses
       /\ facade' = [facade EXCEPT
               !.instanceCount = count,
               !.serverURL = IF last_one THEN BaseURL(facade.env) ELSE @,
               !.procs = IF last_one THEN [@ EXCEPT ![facade.serverProcess].alive = FALSE] ELSE @,
               !.closes = [@ EXCEPT ![f] = @ + 1],
               !.op = "close",
               !.arg = f]
       /\ UNCHANGED <<runs, chans, opts, last>>

\* whether fetch(serverURL + "/healthz") can get an answer: a subprocess
\* that is alive listens there, or the server is not ours to start
Reachable ==
    \/ facade.env.disable
    \/ \E p \in AliveProcs :
          facade.serverURL = <<Scheme>> \o BoundAddress(p, facade.procs[p].listen)

\* the operation of instance f whose request goes to serverURL: applied holds
\* the global options in the environment of the subprocess that is there
Sent(f) ==
    [NoCall EXCEPT
        !.f = f,
        !.pc = "sent",
        !.url = facade.serverURL,
        !.applied = IF \E p \in AliveProcs :
                          facade.serverURL = <<Scheme>> \o BoundAddress(p, facade.procs[p].listen)
                     THEN LET p == CHOOSE q \in AliveProcs :
                                      facade.serverURL
                                          = <<Scheme>> \o BoundAddress(q, facade.procs[q].listen)
                          IN facade.procs[p].env
                     ELSE Absent]

\* Begin that issues the request without a look at ready
Begin_NoCheck(f) ==
    /\ f \in FacadeIds
    /\ facade.call.pc # "poll"
    /\ facade' = [facade EXCEPT !.call = Sent(f), !.op = "begin", !.arg = f]
    /\ UNCHANGED <<runs, chans, opts, last>>

\* an operation of instance f (run, evaluate, parse, parseTool, stringify,
\* version, listTools, listModels, confirm, promptResponse) up to its first
\* await: with ready set the request is issued at once, otherwise
\* testGPTScriptURL(20) starts.  Operations are taken one at a time.
Begin(f) ==
    /\ f \in FacadeIds
    /\ facade.call.pc # "poll"
    /\ facade' = [facade EXCEPT
            !.call = IF facade.ready[f] THEN Sent(f)
                     ELSE [NoCall EXCEPT !.f = f, !.pc = "poll", !.left = HealthAttempts],
            !.op = "begin",
            !.arg = f]
    /\ UNCHANGED <<runs, chans, opts, last>>

\* Poll that issues the request when the attempts are used up
Poll_SendsWhenUsedUp(ok) ==
    LET c == facade.call IN
    /\ c.pc = "poll"
    /\ ok => Reachable
    /\ facade' = [facade EXCEPT
            !.ready = IF ok THEN [@ EXCEPT ![c.f] = TRUE] ELSE @,
            !.passed = IF ok THEN [@ EXCEPT ![c.f] = TRUE] ELSE @,
            !.call = IF ok
                     THEN [Sent(c.f) EXCEPT !.attempts = c.attempts + 1, !.failures = c.failures]
                     ELSE IF c.left = 1
                     THEN [Sent(c.f) EXCEPT !.attempts = c.attempts + 1,
                                            !.failures = c.failures + 1]
                     ELSE [c EXCEPT !.left = @ - 1, !.attempts = @ + 1, !.failures = @ + 1],
            !.op = "poll",
            !.arg = c.f]
    /\ UNCHANGED <<runs, chans, opts, last>>

\* one turn of the loop of testGPTScriptURL for the operation under way: the
\* fetch of /healthz answers (ok) and the operation sets ready and issues
\* its request, or the fetch fails, the loop waits and counts down, and
\* with no attempt left the operation rejects
Poll(ok) ==
    LET c == facade.call IN
    /\ c.pc = "poll"
    /\ ok => Reachable
    /\ facade' = [facade EXCEPT
            !.ready = IF ok THEN [@ EXCEPT ![c.f] = TRUE] ELSE @,
            !.passed = IF ok THEN [@ EXCEPT ![c.f] = TRUE] ELSE @,
            !.call = IF ok
                     THEN [Sent(c.f) EXCEPT !.attempts = c.attempts + 1, !.failures = c.failures]
                     ELSE IF c.left = 1
                     THEN [c EXCEPT !.pc = "rejected", !.left = 0, !.attempts = @ + 1,
                                    !.failures = @ + 1]
                     ELSE [c EXCEPT !.left = @ - 1, !.attempts = @ + 1, !.failures = @ + 1],
            !.op = "poll",
            !.arg = c.f]
    /\ UNCHANGED <<runs, chans, opts, last>>

FacadeInit ==
    /\ runs = <<NewRun>>
    /\ chans = <<>>
    /\ opts = [chatState |-> Absent, input |-> Absent, prompt |-> FALSE]
    /\ last = Label("init", 0, 0, <<>>, <<>>)
    /\ facade \in {NewFacade(env) : env \in [url : BOOLEAN, disable : BOOLEAN]}

(***************************************************************************)
(* FacadeSpec: instances constructed and closed in any order, an instance  *)
(* closed any number of times.  OnceSpec: the same with no instance closed *)
(* twice.                                                                  *)
(***************************************************************************)
FacadeNext ==
    \/ \E g \in GlobalOptsChoices : Construct(g)
    \/ \E p \in ProcIds, keyed \in BOOLEAN : Announce(p, keyed)
    \/ \E f \in FacadeIds : FacadeClose(f)

FacadeSpec == FacadeInit /\ [][FacadeNext]_vars

OnceNext ==
    \/ \E g \in GlobalOptsChoices : Construct(g)
    \/ \E p \in ProcIds, keyed \in BOOLEAN : Announce(p, keyed)
    \/ \E f \in OpenFacades : FacadeClose(f)

OnceSpec == FacadeInit /\ [][OnceNext]_vars

(***************************************************************************)
(* ReadySpec: instances constructed, the subprocess announcing its         *)
(* address, and the operations of the instances.                           *)
(***************************************************************************)
ReadyNext ==
    \/ \E g \in GlobalOptsChoices : Construct(g)
    \/ \E p \in ProcIds : Announce(p, FALSE)
    \/ \E f \in FacadeIds : Begin(f)
    \/ \E ok \in BOOLEAN : Poll(ok)

ReadySpec == FacadeInit /\ [][ReadyNext]_vars

Init ==
    /\ runs = <<NewRun>>
    /\ chans = <<>>
    /\ opts \in [chatState : {Absent, CallerToken}, input : {Absent}, prompt : BOOLEAN]
    /\ last = Label("init", 0, 0, <<>>, <<>>)
    /\ facade = NewFacade(NoEnv)

\* the guard of Run.nextChat without the case of a Run that is running
NextChatAllowed_NotFinished(state) == state # Finished

\* the guard of Run.nextChat
NextChatAllowed(state) == state \in {Continue, Creating, Error}

\* NextChatTarget that submits this Run again, whatever its state
NextChatTarget_This(state, i, fresh) == i

\* the Run that Run.nextChat submits and returns: this (i), or a new one (fresh)
NextChatTarget(state, i, fresh) == IF state # Creating THEN fresh ELSE i

\* NextChatToken that never takes the chat state of the Run
NextChatToken_Old(run, old) == old

\* NextChatToken that takes the chat state of the Run in any state
NextChatToken_AnyState(run, old) == IF Truthy(run.chatState) THEN run.chatState ELSE old

\* the chat state of the options after Run.nextChat
NextChatToken(run, old) ==
    IF Truthy(run.chatState) /\ run.state = Continue THEN run.chatState ELSE old

\* the request body of Run.request, JSON.stringify({...tool, ...this.opts}):
\* its chatState and its input
Body(o) == <<o.chatState, o.input>>

\* ToolArg that submits every kind of tools as the name of a file
ToolArg_AlwaysFile(tools) == <<"file">> \o tools.val

\* the argument of run.request in Run.nextChat: the key and the JSON text of
\* this.tools under it
ToolArg(tools) ==
    IF tools.sort = "array" THEN <<"toolDefs">> \o tools.val
    ELSE IF tools.sort = "string" THEN <<"file">> \o tools.val
    ELSE <<"toolDefs", "[">> \o tools.val \o <<"]">>

\* Run.nextChat(input) on runs[i], with the Run.request it makes.  With keep
\* false the caller assigns the result to the variable that held runs[i]
\* (run = run.nextChat(input)), which drops runs[i] when the result is a new Run.
NextChat(i, input, keep) ==
    /\ i \in RunIds
    /\ runs[i].held
    /\ IF ~NextChatAllowed(runs[i].state)
       THEN /\ last' = Label("nextChat", i, 0, input, <<"throw">>)
            /\ UNCHANGED <<runs, chans, opts, facade>>
       ELSE LET j == NextChatTarget(runs[i].state, i, Len(runs) + 1)
                c == Len(chans) + 1
                o == [opts EXCEPT !.chatState = NextChatToken(runs[i], @), !.input = input]
                made == IF j > Len(runs)
                        THEN Append(runs, [NewRun EXCEPT !.tools = runs[i].tools])
                        ELSE runs
                sent == Append(chans, NewChan(j, Append(Body(o), ToolArg(runs[i].tools))))
                drop == j # i /\ ~keep
            IN /\ Len(chans) < MaxReq
               /\ j <= MaxRuns
               /\ opts' = o
               /\ UNCHANGED facade
               /\ runs' = [[made EXCEPT ![j].promise = c, ![j].req = c]
                               EXCEPT ![i] = IF drop THEN Dropped ELSE @]
               /\ chans' = [k \in 1..c |->
                               IF drop /\ sent[k].run = i THEN DroppedChan(i) ELSE sent[k]]
               /\ last' = Label("nextChat", i, c, input, <<"ok", j>>)

\* Run.request(tool) called on runs[i] by the facade (parse, parseTool, stringify)
Request(i) ==
    /\ i \in RunIds
    /\ runs[i].held
    /\ Len(chans) < MaxReq
    /\ LET c == Len(chans) + 1
       IN /\ runs' = [runs EXCEPT ![i].promise = c, ![i].req = c]
          /\ chans' = Append(chans, NewChan(i, Body(opts)))
          /\ last' = Label("request", i, c, <<>>, <<>>)
    /\ UNCHANGED <<opts, facade>>

\* the callback of http.request: the engine accepted the request
Accept(c) ==
    /\ c \in ChanIds
    /\ chans[c].phase = "sent"
    /\ ~chans[c].destroyed
    /\ runs' = [runs EXCEPT ![chans[c].run].state = Running]
    /\ chans' = [chans EXCEPT ![c].phase = "open"]
    /\ last' = Label("accept", chans[c].run, c, <<>>, <<>>)
    /\ UNCHANGED <<opts, facade>>

\* res.on("data"); last.res is the number of calls of this.close() it made
Data(c, chunk) ==
    /\ c \in ChanIds
    /\ chans[c].phase = "open"
    /\ ~chans[c].destroyed
    /\ Len(chans[c].fed) < MaxData
    /\ LET r == chans[c].run
           d == DataHandler(runs[r], opts.prompt, chans[c].frag, chunk)
           c1 == [chans EXCEPT ![c].frag = d.frag, ![c].fed = Append(@, chunk)]
       IN /\ runs' = [runs EXCEPT ![r] = d.run]
          /\ chans' = IF d.closes > 0 THEN [c1 EXCEPT ![d.run.req].destroyed = TRUE] ELSE c1
          /\ last' = Label("data", r, c, chunk, <<d.closes>>)
    /\ UNCHANGED <<opts, facade>>

\* OnEnd that rejects with the diagnostic output when the Run is in Error
OnEnd_RejectsStderr(run, ch) ==
    IF run.state \in {Running, Finished, Continue}
    THEN IF Truthy(run.stdout)
         THEN [run |-> [run EXCEPT !.state = IF @ # Continue THEN Finished ELSE @],
               ch |-> Settle(ch, "resolved", run.stdout)]
         ELSE [run |-> [run EXCEPT !.state = Error],
               ch |-> Settle(ch, "rejected", run.stderr)]
    ELSE IF run.state = Error
    THEN [run |-> run, ch |-> Settle(ch, "rejected", run.stderr)]
    ELSE [run |-> run, ch |-> ch]

\* res.on("end")
OnEnd(run, ch) ==
    IF run.state \in {Running, Finished, Continue}
    THEN IF Truthy(run.stdout)
         THEN [run |-> [run EXCEPT !.state = IF @ # Continue THEN Finished ELSE @],
               ch |-> Settle(ch, "resolved", run.stdout)]
         ELSE [run |-> [run EXCEPT !.state = Error],
               ch |-> Settle(ch, "rejected", run.stderr)]
    ELSE IF run.state = Error
    THEN [run |-> run, ch |-> Settle(ch, "rejected", run.err)]
    ELSE [run |-> run, ch |-> ch]

End(c) ==
    /\ c \in ChanIds
    /\ chans[c].phase = "open"
    /\ ~chans[c].destroyed
    /\ LET r == chans[c].run
           d == OnEnd(runs[r], chans[c])
       IN /\ runs' = [runs EXCEPT ![r] = d.run]
          /\ chans' = [chans EXCEPT ![c] = [d.ch EXCEPT !.phase = "ended"]]
          /\ last' = Label("end", r, c, <<>>, <<>>)
    /\ UNCHANGED <<opts, facade>>

\* res.on("aborted")
OnAborted(run, ch) ==
    IF run.state # Finished /\ run.state # Error
    THEN [run |-> [run EXCEPT !.state = Error, !.err = AbortedMsg],
          ch |-> Settle(ch, "rejected", AbortedMsg)]
    ELSE [run |-> run, ch |-> ch]

Aborted(c) ==
    /\ c \in ChanIds
    /\ chans[c].phase = "open"
    /\ LET r == chans[c].run
           d == OnAborted(runs[r], chans[c])
       IN /\ runs' = [runs EXCEPT ![r] = d.run]
          /\ chans' = [chans EXCEPT ![c] = [d.ch EXCEPT !.phase = "aborted"]]
          /\ last' = Label("aborted", r, c, <<>>, <<>>)
    /\ UNCHANGED <<opts, facade>>

\* res.on("error") and req.on("error"): the same body
OnError(run, ch, msg) ==
    LET r1 == IF run.state # Error THEN [run EXCEPT !.state = Error, !.err = msg] ELSE run
    IN [run |-> r1, ch |-> Settle(ch, "rejected", r1.err)]

ResError(c, msg) ==
    /\ c \in ChanIds
    /\ chans[c].phase \in {"open", "aborted"}
    /\ LET r == chans[c].run
           d == OnError(runs[r], chans[c], msg)
       IN /\ runs' = [runs EXCEPT ![r] = d.run]
          /\ chans' = [chans EXCEPT ![c] = [d.ch EXCEPT !.phase = "failed"]]
          /\ last' = Label("resError", r, c, msg, <<>>)
    /\ UNCHANGED <<opts, facade>>

ReqError(c, msg) ==
    /\ c \in ChanIds
    /\ chans[c].phase = "sent"
    /\ LET r == chans[c].run
           d == OnError(runs[r], chans[c], msg)
       IN /\ runs' = [runs EXCEPT ![r] = d.run]
          /\ chans' = [chans EXCEPT ![c] = [d.ch EXCEPT !.phase = "failed"]]
          /\ last' = Label("reqError", r, c, msg, <<>>)
    /\ UNCHANGED <<opts, facade>>

\* Close that sets the Run to Error at once
Close_SetsError(i) ==
    /\ i \in RunIds
    /\ runs[i].held
    /\ IF runs[i].req # 0
       THEN /\ chans' = [chans EXCEPT ![runs[i].req].destroyed = TRUE]
            /\ runs' = [runs EXCEPT ![i].state = Error, ![i].err = AbortedMsg]
            /\ last' = Label("close", i, runs[i].req, <<>>, <<"ok">>)
       ELSE /\ chans' = chans
            /\ runs' = runs
            /\ last' = Label("close", i, 0, <<>>, <<"throw">>)
    /\ UNCHANGED <<opts, facade>>

\* Close that throws on a Run that is Finished or in Error
Close_ThrowsWhenDone(i) ==
    /\ i \in RunIds
    /\ runs[i].held
    /\ IF runs[i].req # 0 /\ runs[i].state \notin {Finished, Error}
       THEN /\ chans' = [chans EXCEPT ![runs[i].req].destroyed = TRUE]
            /\ last' = Label("close", i, runs[i].req, <<>>, <<"ok">>)
       ELSE /\ chans' = chans
            /\ last' = Label("close", i, 0, <<>>, <<"throw">>)
    /\ UNCHANGED <<runs, opts, facade>>

\* Run.close: this.req.destroy(), or the usage error
Close(i) ==
    /\ i \in RunIds
    /\ runs[i].held
    /\ IF runs[i].req # 0
       THEN /\ chans' = [chans EXCEPT ![runs[i].req].destroyed = TRUE]
            /\ last' = Label("close", i, runs[i].req, <<>>, <<"ok">>)
       ELSE /\ chans' = chans
            /\ last' = Label("close", i, 0, <<>>, <<"throw">>)
    /\ UNCHANGED <<runs, opts, facade>>

\* Run.parentCallFrame: the entry of the call map, or nothing
ParentCallFrame(run) ==
    IF Truthy(run.parentCallId)
    THEN SelectSeq(run.calls, LAMBDA call : call.id = run.parentCallId)
    ELSE <<>>

\* Run.currentChatState
CurrentChatState(run) == run.chatState

\* TextResult that returns a pending promise for a Run that was not started
TextResult_NotStartedPending(run) ==
    IF Truthy(run.err) THEN "throw"
    ELSE IF run.promise = 0 THEN "pending"
    ELSE chans[run.promise].settled

\* Run.text: it throws, or returns the promise, which is pending, resolved or rejected
TextResult(run) ==
    IF Truthy(run.err) THEN "throw"
    ELSE IF run.promise = 0 THEN "throw"
    ELSE chans[run.promise].settled

Text(i) ==
    /\ i \in RunIds
    /\ runs[i].held
    /\ last' = Label("text", i, runs[i].promise, <<>>, <<TextResult(runs[i])>>)
    /\ UNCHANGED <<runs, chans, opts, facade>>

\* Run.on: the listener is named by its place in the order of registration
On(i, event) ==
    /\ i \in RunIds
    /\ runs[i].held
    /\ NumCallbacks(runs[i]) < MaxCallbacks
    /\ runs' = [runs EXCEPT ![i].callbacks[event] = Append(@, NumCallbacks(runs[i]) + 1)]
    /\ last' = Label("on", i, 0, <<event>>, <<>>)
    /\ UNCHANGED <<chans, opts, facade>>

(***************************************************************************)
(* Spec: a chat session as the tests drive it.  The caller holds one Run   *)
(* at a time, run = run.nextChat(input), and continues a Run it got from   *)
(* nextChat only after the request of that Run was answered.               *)
(***************************************************************************)
Next ==
    \/ \E i \in 1..MaxRuns, input \in Inputs :
          /\ i \in RunIds
          /\ runs[i].req # 0 => chans[runs[i].req].phase # "sent"
          /\ NextChat(i, input, FALSE)
    \/ \E c \in 1..MaxReq : Accept(c)
    \/ \E c \in 1..MaxReq, chunk \in TurnChunks : Data(c, chunk)
    \/ \E c \in 1..MaxReq : End(c)
    \/ \E c \in 1..MaxReq : Aborted(c)
    \/ \E c \in 1..MaxReq, msg \in ErrMsgs : ResError(c, msg)
    \/ \E c \in 1..MaxReq, msg \in ErrMsgs : ReqError(c, msg)
    \/ \E i \in 1..MaxRuns : Close(i)
    \/ \E i \in 1..MaxRuns : Text(i)

Spec == Init /\ [][Next]_vars

(***************************************************************************)
(* ToolSpec: the chat session of Spec, started on a Run with any of the    *)
(* three kinds of tools.                                                   *)
(***************************************************************************)
ToolInit ==
    /\ runs \in {<<[NewRun EXCEPT !.tools = t]>> : t \in ToolChoices}
    /\ chans = <<>>
    /\ opts \in [chatState : {Absent, CallerToken}, input : {Absent}, prompt : BOOLEAN]
    /\ last = Label("init", 0, 0, <<>>, <<>>)
    /\ facade = NewFacade(NoEnv)

ToolSpec == ToolInit /\ [][Next]_vars

(***************************************************************************)
(* BothSpec: one Run with a subscriber, fed records that have a stderr     *)
(* field and a stdout field.                                               *)
(***************************************************************************)
BothChunks ==
    { Line(Rec(KBoth, <<"a">>)),
      Line(Rec(KBoth, <<>>)),
      Line(Rec(KChat, <<"b">>)),
      Line(Rec(KStderr, <<"b">>)) }

BothNext ==
    \/ \E input \in Inputs : chans = <<>> /\ NextChat(1, input, TRUE)
    \/ Accept(1)
    \/ \E chunk \in BothChunks : Data(1, chunk)
    \/ chans = <<>> /\ On(1, EvEvent)

BothSpec == Init /\ [][BothNext]_vars

(***************************************************************************)
(* StreamSpec: one Run, its one request, and every record of the stream.   *)
(***************************************************************************)
StreamNext ==
    \/ \E input \in Inputs : chans = <<>> /\ NextChat(1, input, TRUE)
    \/ Accept(1)
    \/ \E chunk \in Chunks : Data(1, chunk)
    \/ End(1)
    \/ Aborted(1)
    \/ \E msg \in ErrMsgs : ResError(1, msg)
    \/ \E msg \in ErrMsgs : ReqError(1, msg)
    \/ Close(1)
    \/ Text(1)

StreamSpec == Init /\ [][StreamNext]_vars

\* StreamSpec with a transport that brings every request to an answer or an
\* error, and every answer to its end or its abort
LiveSpec ==
    /\ StreamSpec
    /\ WF_vars(Accept(1) \/ \E msg \in ErrMsgs : ReqError(1, msg))
    /\ WF_vars(End(1) \/ Aborted(1))

(***************************************************************************)
(* EventSpec: one Run, its one request, the callbacks registered on the    *)
(* Run and the records that are fanned out to them.                        *)
(***************************************************************************)
EventNext ==
    \/ \E input \in Inputs : chans = <<>> /\ NextChat(1, input, TRUE)
    \/ Accept(1)
    \/ \E chunk \in EventChunks : Data(1, chunk)
    \/ \E event \in {EvEvent, EvPrompt, EvCallProgress} : On(1, event)

EventSpec == Init /\ [][EventNext]_vars

(***************************************************************************)
(* FrameSpec: one Run, its one request, and the text of one record cut in  *)
(* two chunks at any place.                                                *)
(***************************************************************************)
FrameRecords ==
    { Rec(KRunOut, <<"a", SP, "b">>),
      Rec(KChat, <<"a">>),
      Rec(KStderr, <<"a">>),
      Rec(KCall, <<"a">>) }

Cuts(r) == 1..(Len(Line(r)) - 1)
FirstChunk(r, k) == SubSeq(Line(r), 1, k)
SecondChunk(r, k) == SubSeq(Line(r), k + 1, Len(Line(r)))

FramePieces ==
    UNION {UNION {{FirstChunk(r, k), SecondChunk(r, k)} : k \in Cuts(r)} : r \in FrameRecords}

FrameNext ==
    \/ chans = <<>> /\ On(1, EvEvent)
    \/ \E input \in Inputs : chans = <<>> /\ NextChat(1, input, TRUE)
    \/ Accept(1)
    \/ \E chunk \in FramePieces : Data(1, chunk)

FrameSpec == Init /\ [][FrameNext]_vars

(***************************************************************************)
(* RepeatSpec: a chat session whose caller keeps every Run it was given    *)
(* and may call nextChat on any of them again.                             *)
(***************************************************************************)
RepeatNext ==
    \/ \E i \in 1..MaxRuns, input \in Inputs : NextChat(i, input, TRUE)
    \/ \E c \in 1..MaxReq : Accept(c)
    \/ \E c \in 1..MaxReq : Data(c, Line(Rec(KChat, <<"a">>)))

RepeatSpec == Init /\ [][RepeatNext]_vars

(***************************************************************************)
(* OutputSpec: one object of class Run or of class RunSubcommand, its one  *)
(* request, a stream with primary-output records that hold a string, a     *)
(* record that is cut off, and the end of the stream.  The options of a     *)
(* RunSubcommand are the ones the facade constructs it with.                *)
(***************************************************************************)
StdoutLine == Line(Rec(KStdoutStr, <<"a">>))
CutOff == <<LB, KStdoutStr, "a">>

WholeChunks ==
    { StdoutLine,
      Line(Rec(KRunStart, <<>>)),
      Line(Rec(KRunOut, <<"a">>)),
      Line(Rec(KCall, <<"a">>)),
      Line(Rec(KOther, <<"a">>)) }

OutputChunks == WholeChunks \cup {CutOff}

OutputInit ==
    /\ runs \in {<<NewRun>>, <<NewRunSubcommand>>}
    /\ chans = <<>>
    /\ opts \in [chatState : {Absent, CallerToken}, input : {Absent}, prompt : BOOLEAN]
    /\ runs[1].sub => (opts.chatState = Absent /\ ~opts.prompt)
    /\ last = Label("init", 0, 0, <<>>, <<>>)
    /\ facade = NewFacade(NoEnv)

OutputNext ==
    \/ chans = <<>> /\ On(1, EvEvent)
    \/ \E input \in Inputs : chans = <<>> /\ ~runs[1].sub /\ NextChat(1, input, TRUE)
    \/ chans = <<>> /\ runs[1].sub /\ Request(1)
    \/ Accept(1)
    \/ \E chunk \in OutputChunks : Data(1, chunk)
    \/ End(1)

OutputSpec == OutputInit /\ [][OutputNext]_vars

(***************************************************************************)
(* ExecSpec: the Run of the releases that start the engine as a child      *)
(* process (Run.exec).  The structured events arrive on an auxiliary pipe  *)
(* of the child; its 'data' handler hands each chunk to emitEvent, which   *)
(* in those releases parses a line as the frame itself.                    *)
(***************************************************************************)
\* emitEvent of those releases, what a run frame does to the Run
ExecApplyFrame(run, f) ==
    IF f.type = EvRunStart
    THEN [run EXCEPT !.state = Running]
    ELSE IF f.type = EvRunFinish
    THEN IF Truthy(f.error)
         THEN [run EXCEPT !.state = Error, !.err = f.error]
         ELSE [run EXCEPT !.state = Finished,
                          !.stdout = IF Truthy(f.output) THEN f.output ELSE <<>>]
    ELSE run

\* emitEvent of those releases over the lines of data from line k on:
\* the Run afterwards and the returned text of the line that did not parse
RECURSIVE ExecEvents(_, _, _)
ExecEvents(run, lines, k) ==
    IF k > Len(lines) THEN [run |-> run, ret |-> <<>>]
    ELSE LET event == Trim(lines[k]) IN
         IF event = <<>> THEN ExecEvents(run, lines, k + 1)
         ELSE IF ~Parses(event) THEN [run |-> run, ret |-> event]
         ELSE LET f == Parse(event).f
              IN ExecEvents(Deliver(ExecApplyFrame(run, f), f).run, lines, k + 1)

ExecEmitEvent(run, data) == ExecEvents(run, Split(data), 1)

ExecRecords == {Rec(KRunStart, <<>>), Rec(KRunOut, <<"a">>)}

ExecPieces ==
    {Line(r) : r \in ExecRecords}
        \cup UNION {UNION {{FirstChunk(r, k), SecondChunk(r, k)} : k \in Cuts(r)} : r \in ExecRecords}

\* Run.exec: the child process is spawned, the handlers are set, the Run is Running
Exec(i) ==
    /\ i \in RunIds
    /\ runs[i].held
    /\ runs[i].state = Creating
    /\ Len(chans) < MaxReq
    /\ LET c == Len(chans) + 1
       IN /\ runs' = [runs EXCEPT ![i].promise = c, ![i].state = Running]
          /\ chans' = Append(chans, [NewChan(i, Body(opts)) EXCEPT !.phase = "exec"])
          /\ last' = Label("exec", i, c, <<>>, <<>>)
    /\ UNCHANGED <<opts, facade>>

\* pipe.on("data") of the auxiliary pipe: this.emitEvent(data.toString()),
\* whose result is not kept
PipeData(c, chunk) ==
    /\ c \in ChanIds
    /\ chans[c].phase = "exec"
    /\ Len(chans[c].fed) < MaxData
    /\ LET r == chans[c].run
       IN /\ runs' = [runs EXCEPT ![r] = ExecEmitEvent(runs[r], chunk).run]
          /\ chans' = [chans EXCEPT ![c].fed = Append(@, chunk)]
          /\ last' = Label("pipeData", r, c, chunk, <<>>)
    /\ UNCHANGED <<opts, facade>>

ExecNext ==
    \/ chans = <<>> /\ On(1, EvEvent)
    \/ chans = <<>> /\ Exec(1)
    \/ \E chunk \in ExecPieces : PipeData(1, chunk)

ExecSpec == Init /\ [][ExecNext]_vars

(***************************************************************************)
(* CallSpec: one Run, its one request, and a stream of call records: calls *)
(* without a parent and with one, and records of one call that hold        *)
(* different fields.                                                       *)
(***************************************************************************)
CallLines ==
    { Line(Rec(KCall, <<"a">>)),
      Line(Rec(KCall, <<"b">>)),
      Line(Rec(KCallIn, <<"a">>)),
      Line(Rec(KCallOut, <<"b">>)),
      Line(Rec(KCallSub, <<"a">>)),
      Line(Rec(KCallSub, <<"b">>)) }

CallChunks == CallLines \cup {x \o y : x \in CallLines, y \in CallLines}

CallNext ==
    \/ \E input \in Inputs : chans = <<>> /\ NextChat(1, input, TRUE)
    \/ Accept(1)
    \/ \E chunk \in CallChunks : Data(1, chunk)

CallSpec == Init /\ [][CallNext]_vars

(***************************************************************************)
(* The claims.                                                             *)
(***************************************************************************)
Terminal == {Finished, Error}

\* the kinds of the records of a chunk of whole lines
KindsOf(chunk) ==
    LET lines == Split(chunk)
    IN {Trim(StripData(lines[k]))[2] : k \in {n \in 1..Len(lines) : Parses(Trim(StripData(lines[n])))}}

\* C1, as stated: once the state of a Run is Finished or Error, no record
\* delivered to the Run changes it.
C1_TerminalStateKept ==
    (last.op = "data" /\ last.pre.state \in Terminal)
        => runs[last.run].state = last.pre.state

\* C1, amended: once the state of a Run is Finished or Error, a chunk of call
\* records, diagnostic records and allowed prompt records does not change it
\* (a run-started, run-finished, primary-output or refused prompt record does).
C1_TerminalStateKeptByCallAndDiagnostic ==
    (/\ last.op = "data"
     /\ last.pre.state \in Terminal
     /\ KindsOf(last.arg) \subseteq ({KCall, KStderr} \cup (IF opts.prompt THEN {KPrompt} ELSE {})))
        => runs[last.run].state = last.pre.state

C1_Witness ==
    /\ last.op = "data"
    /\ last.pre.state = Finished
    /\ KindsOf(last.arg) = {KCall}
    /\ runs[last.run].state = Finished

\* C2: nextChat on a Run that is Finished or Running throws, submits no
\* request and constructs no Run.
C2_NextChatRejected ==
    (last.op = "nextChat" /\ last.pre.state \in {Finished, Running})
        => /\ last.res = <<"throw">>
           /\ <<Len(runs), Len(chans)>> = last.made
           /\ runs[last.run] = last.pre

C2_Witness ==
    /\ last.op = "nextChat"
    /\ last.pre.state = Running
    /\ last.res = <<"throw">>

\* the Run right after its request was accepted, with the callbacks it has now
Accepted(run) ==
    [NewRun EXCEPT !.state = Running, !.promise = 1, !.req = 1, !.callbacks = run.callbacks,
                   !.sub = run.sub, !.tools = run.tools]

\* C3: a record cut in two chunks at any place and fed by two calls of the
\* data handler has the effect (state, buffers, call map, delivered events,
\* carry-over) of the record fed in one chunk.
C3_SplitRecordAsWhole ==
    \A r \in FrameRecords : \A k \in Cuts(r) :
        (chans # <<>> /\ chans[1].fed = <<FirstChunk(r, k), SecondChunk(r, k)>>)
            => LET whole == DataHandler(Accepted(runs[1]), opts.prompt, <<>>, Line(r))
               IN /\ runs[1] = whole.run
                  /\ chans[1].frag = whole.frag
                  /\ chans[1].destroyed = (whole.closes > 0)

\* C4: after a run-started record, a run-finished record with output o and no
\* error, and the end of the stream, the state is Finished and text() resolves
\* to o, for every o, the empty string too.
C4_FinishedOutputResolves ==
    \A o \in {<<>>, <<"a">>} :
        (/\ chans # <<>>
         /\ chans[1].fed = <<Line(Rec(KRunStart, <<>>)), Line(Rec(KRunOut, o))>>
         /\ chans[1].phase = "ended")
            => /\ runs[1].state = Finished
               /\ TextResult(runs[1]) = "resolved"
               /\ chans[runs[1].promise].value = o

\* the transport reports that the request or the response was terminated
Reports == {"aborted", "resError", "reqError"}

\* C5: for a started Run in a state that is not terminal (request sent and not
\* yet accepted, Running, Continue), close() and then the report of the
\* transport leave the Run in Error with the stored error message telling of
\* the abort, and text() fails.
C5_CloseThenReportIsAbort ==
    (/\ last.op \in Reports
     /\ last.pre.state \in {Creating, Running, Continue}
     /\ chans[last.ch].destroyed)
        => /\ runs[last.run].state = Error
           /\ runs[last.run].err = AbortedMsg
           /\ TextResult(runs[last.run]) \in {"throw", "rejected"}

PromptLine == Line(Rec(KPrompt, <<"a">>))

\* C6: with prompt disabled a prompt record puts the Run in Error and calls
\* close() exactly once.
C6_RefusedPromptClosesOnce ==
    (last.op = "data" /\ ~opts.prompt /\ KPrompt \in KindsOf(last.arg))
        => /\ last.res = <<1>>
           /\ chans[runs[last.run].req].destroyed
           /\ last.arg = PromptLine => /\ runs[last.run].state = Error
                                       /\ runs[last.run].stdout = last.pre.stdout
                                       /\ runs[last.run].calls = last.pre.calls

C6_Witness ==
    /\ last.op = "data"
    /\ ~opts.prompt
    /\ last.arg = PromptLine
    /\ last.pre.state = Running
    /\ runs[last.run].state = Error

\* C7: with prompt disabled a prompt record is delivered to no callback, of
\* the catch-all type or of the prompt type, and the stored error of the Run
\* starts with "prompt occurred".
C7_RefusedPromptNotDelivered ==
    ~opts.prompt =>
        \A i \in RunIds :
            /\ \A k \in 1..Len(runs[i].delivered) : runs[i].delivered[k][3].type # EvPrompt
            /\ (last.op = "data" /\ last.run = i /\ last.arg = PromptLine)
                   => /\ runs[i].err # <<>>
                      /\ Head(runs[i].err) = Head(PromptErr(<<>>))
                      /\ runs[i].delivered = last.pre.delivered

C7_Witness ==
    /\ ~opts.prompt
    /\ last.op = "data"
    /\ last.arg = PromptLine
    /\ runs[1].callbacks[EvEvent] # <<>>
    /\ runs[1].callbacks[EvPrompt] # <<>>
    /\ runs[1].delivered = <<>>

C10_ErrorCarriesNoToken ==
    (last.op = "nextChat" /\ Head(last.res) = "ok" /\ last.pre.state = Error)
        => chans[last.ch].body[1] \in {Absent, CallerToken}

\* C10, amended: nextChat on a Run in Error does not take the chat state of
\* that Run; the request carries the chat state the options held before the
\* call, be it absent, put there by the caller, or taken by an earlier
\* nextChat from a turn that ended in Continue.
C10_ErrorKeepsTokenOfOptions ==
    (last.op = "nextChat" /\ Head(last.res) = "ok" /\ last.pre.state = Error)
        => /\ chans[last.ch].body[1] = last.token
           /\ opts.chatState = last.token

C10_Witness ==
    /\ last.op = "nextChat"
    /\ Head(last.res) = "ok"
    /\ last.pre.state = Error
    /\ Truthy(last.pre.chatState)
    /\ last.pre.chatState # last.token
    /\ chans[last.ch].body[1] = last.token

\* C11: after a nextChat that succeeded on a Run in Continue, another
\* nextChat on the same Run throws the usage error and makes no request.
C11_SecondNextChatRejected ==
    [][(/\ last.op = "nextChat"
        /\ Head(last.res) = "ok"
        /\ last.pre.state = Continue
        /\ last'.op = "nextChat"
        /\ last'.run = last.run)
            => (last'.res = <<"throw">> /\ Len(chans') = Len(chans))]_vars

ChatLine == Line(Rec(KChat, <<"a">>))

ChatDoneLine == Line(Rec(KChatDone, <<>>))

\* C13: a primary-output record that is done sets the state of the Run to
\* Finished, and currentChatState() returns nothing afterwards, whatever chat
\* state the Run held before.
C13_DoneClearsToken ==
    (last.op = "data" /\ last.arg = ChatDoneLine)
        => /\ runs[last.run].state = Finished
           /\ CurrentChatState(runs[last.run]) = Absent

C13_Witness ==
    /\ last.op = "data"
    /\ last.arg = ChatDoneLine
    /\ Truthy(last.pre.chatState)
    /\ last.pre.state = Continue
    /\ runs[last.run].state = Finished

\* the chunk fed last on a request
LastFed(ch) == ch.fed[Len(ch.fed)]

\* C14: after a run-finished record with error message e and then the end of
\* the stream, the Run is in Error, its stored error is e, and the promise
\* that text() returned before rejects with e.
C14_RunErrorRejectsWithMessage ==
    (/\ last.op = "end"
     /\ chans[last.ch].fed # <<>>
     /\ LastFed(chans[last.ch]) = Line(Rec(KRunErr, <<"a">>)))
        => /\ runs[last.run].state = Error
           /\ runs[last.run].err = <<"a">>
           /\ chans[last.ch].settled = "rejected"
           /\ chans[last.ch].value = <<"a">>

C14_Witness ==
    /\ last.op = "end"
    /\ chans[last.ch].fed = <<Line(Rec(KStderr, <<"a">>)), Line(Rec(KRunErr, <<"a">>))>>
    /\ runs[last.run].stderr = <<"a">>
    /\ chans[last.ch].settled = "rejected"

\* C15: a report of the transport (abort or error) on a Run that is in
\* Finished or Error changes neither the state nor the stored error.
C15_ReportAfterTerminalIgnored ==
    (last.op \in Reports /\ last.pre.state \in Terminal)
        => /\ runs[last.run].state = last.pre.state
           /\ runs[last.run].err = last.pre.err

\* the records that end a run
TerminalKinds == {KRunOut, KRunErr, KChatDone}

TerminalSeen(ch) == \E k \in 1..Len(ch.fed) : KindsOf(ch.fed[k]) \cap TerminalKinds # {}

\* C16: when the stream ends with a carry-over that never parsed, a Run
\* that saw its run-finished record with output completes as usual (Finished,
\* text() resolves), and a Run that saw no terminal record ends in Error with
\* text() rejected.
C16_LeftoverFragmentAtEnd ==
    (last.op = "end" /\ chans[last.ch].frag # <<>>)
        => IF TerminalSeen(chans[last.ch])
           THEN (last.pre.state = Finished /\ Truthy(last.pre.stdout))
                    => /\ runs[last.run].state = Finished
                       /\ chans[last.ch].settled = "resolved"
           ELSE /\ runs[last.run].state = Error
                /\ chans[last.ch].settled = "rejected"

\* the record texts of a chunk of whole lines, in the order of the lines
RECURSIVE RecordsOfLines(_, _)
RecordsOfLines(lines, k) ==
    IF k > Len(lines) THEN <<>>
    ELSE LET c == Trim(StripData(lines[k]))
         IN (IF Parses(c) THEN <<c>> ELSE <<>>) \o RecordsOfLines(lines, k + 1)

RECURSIVE RecordsOf(_, _)
RecordsOf(fed, k) ==
    IF k > Len(fed) THEN <<>>
    ELSE RecordsOfLines(Split(fed[k]), 1) \o RecordsOf(fed, k + 1)

\* what one record does to a Run when it is recognized
ApplyRecord(run, promptAllowed, c) ==
    LET e == Parse(c) IN
    IF Truthy(e.stderr)
    THEN [run EXCEPT !.stderr = (IF Truthy(@) THEN @ ELSE <<>>) \o e.stderr]
    ELSE IF e.stdout.sort # "absent"
    THEN ProcessStdoutOf(run, e.stdout).run
    ELSE EmitEvent(run, promptAllowed, c).run

RECURSIVE ApplyInOrder(_, _, _, _)
ApplyInOrder(run, promptAllowed, recs, k) ==
    IF k > Len(recs) THEN run
    ELSE ApplyInOrder(ApplyRecord(run, promptAllowed, recs[k]), promptAllowed, recs, k + 1)

\* C18: after chunks of whole records, the Run (its state, its buffers, its
\* call map and the events delivered to its callbacks, in order) is what the
\* records give when each is applied once, in the order of arrival.
C18_RecordsAppliedInArrivalOrder ==
    (/\ chans # <<>>
     /\ chans[1].phase = "open"
     /\ \A k \in 1..Len(chans[1].fed) : chans[1].fed[k] \in WholeChunks)
        => runs[1] = ApplyInOrder(Accepted(runs[1]), opts.prompt, RecordsOf(chans[1].fed, 1), 1)

\* C17: when the Run is in Continue at the end of the stream (the record that
\* set the state last was a primary-output record that is not done) and has
\* output, the Run stays in Continue and text() returns a promise that
\* resolves to the output.
C17_EndKeepsContinue ==
    (last.op = "end" /\ last.pre.state = Continue /\ Truthy(last.pre.stdout))
        => /\ runs[last.run].state = Continue
           /\ TextResult(runs[last.run]) = "resolved"
           /\ chans[last.ch].value = last.pre.stdout

\* the Run right after Run.exec, with the callbacks it has now
Executed(run) ==
    [NewRun EXCEPT !.state = Running, !.promise = 1, !.callbacks = run.callbacks]

\* C19: an event record cut in two chunks of the auxiliary pipe of the child
\* process has the effect (state, output, delivered events) of the record
\* arriving in one chunk.
C19_SplitRecordOnPipeAsWhole ==
    \A r \in ExecRecords : \A k \in Cuts(r) :
        (/\ chans # <<>>
         /\ chans[1].phase = "exec"
         /\ chans[1].fed = <<FirstChunk(r, k), SecondChunk(r, k)>>)
            => runs[1] = ExecEmitEvent(Executed(runs[1]), Line(r)).run

\* the calls of callbacks that the last operation made
NewlyDelivered ==
    SubSeq(runs[last.run].delivered, Len(last.pre.delivered) + 1, Len(runs[last.run].delivered))

\* the type of the one record of a chunk of EventChunks that is fanned out
FannedType(chunk) ==
    IF chunk = Line(Rec(KRunStart, <<>>)) THEN EvRunStart
    ELSE IF chunk = Line(Rec(KCall, <<"a">>)) THEN EvCallProgress
    ELSE EvPrompt

\* C20: a record that is fanned out calls every callback registered for the
\* catch-all type and every callback registered for the type of the record
\* once each: first the catch-all callbacks, then those of the type, each
\* list in the order of registration, every call with the frame of the record.
C20_FanOutOrder ==
    (/\ last.op = "data"
     /\ last.arg \in EventChunks \ {Line(Rec(KStderr, <<"a">>))}
     /\ (last.arg = PromptLine => opts.prompt))
        => LET all == runs[last.run].callbacks[EvEvent]
               own == runs[last.run].callbacks[FannedType(last.arg)]
               new == NewlyDelivered
           IN /\ runs[last.run].callbacks = last.pre.callbacks
              /\ Len(new) = Len(all) + Len(own)
              /\ \A k \in 1..Len(all) :
                     /\ new[k][1] = all[k]
                     /\ new[k][2] = EvEvent
                     /\ new[k][3].type = FannedType(last.arg)
              /\ \A k \in 1..Len(own) :
                     /\ new[Len(all) + k][1] = own[k]
                     /\ new[Len(all) + k][2] = FannedType(last.arg)
                     /\ new[Len(all) + k][3].type = FannedType(last.arg)
              /\ \A k \in 1..(Len(all) - 1) : all[k] < all[k + 1]
              /\ \A k \in 1..(Len(own) - 1) : own[k] < own[k + 1]

C20_Witness ==
    /\ last.op = "data"
    /\ last.arg = Line(Rec(KCall, <<"a">>))
    /\ runs[last.run].callbacks[EvEvent] # <<>>
    /\ runs[last.run].callbacks[EvCallProgress] # <<>>
    /\ Len(NewlyDelivered) = 2

\* the frames of the call records fed on the request of runs[1], in order
CallFramesFed ==
    LET recs == IF chans = <<>> THEN <<>> ELSE RecordsOf(chans[1].fed, 1)
        calls == SelectSeq(recs, LAMBDA c : Parse(c).env = "call")
    IN [k \in 1..Len(calls) |-> Parse(calls[k]).f]

\* the place of the latest frame of the id in a sequence of frames
LatestOf(frames, id) ==
    CHOOSE n \in 1..Len(frames) :
        /\ frames[n].id = id
        /\ \A m \in (n + 1)..Len(frames) : frames[m].id # id

\* C21: after any sequence of call records the call map has one entry for
\* each call id that was seen and no other, and the entry of an id is the
\* latest record with that id.
C21_CallMapHoldsLatestPerId ==
    LET fed == CallFramesFed
        calls == runs[1].calls
    IN /\ \A j, k \in 1..Len(calls) : calls[j].id = calls[k].id => j = k
       /\ {calls[k].id : k \in 1..Len(calls)} = {fed[n].id : n \in 1..Len(fed)}
       /\ \A k \in 1..Len(calls) : calls[k] = fed[LatestOf(fed, calls[k].id)]

C21_Witness ==
    /\ Len(CallFramesFed) = 4
    /\ Len(runs[1].calls) = 2
    /\ \E k \in 1..2 : runs[1].calls[k].id = <<"a">> /\ runs[1].calls[k].input = <<"a">>
    /\ CallFramesFed[1].id = <<"a">>
    /\ CallFramesFed[1].input = Absent

\* C22: two call records with the same id and different fields leave one
\* entry in the call map, which holds the fields of both, with the value of
\* the later record for a field that both have.
C22_CallRecordsMerged ==
    (chans # <<>> /\ chans[1].fed = <<Line(Rec(KCallIn, <<"a">>)), Line(Rec(KCallOut, <<"b">>))>>)
        => /\ Len(runs[1].calls) = 1
           /\ runs[1].calls[1].id = <<"a">>
           /\ runs[1].calls[1].input = <<"a">>
           /\ runs[1].calls[1].output = <<"b">>

\* the places of the fed call frames that have no parent
RootsFed == {n \in 1..Len(CallFramesFed) : ~Truthy(CallFramesFed[n].parentID)}

FirstRoot == CHOOSE n \in RootsFed : \A m \in RootsFed : n <= m

\* C23: parentCallFrame() returns nothing until a call record without a
\* parent has arrived; from then on it returns the entry of the call map for
\* the id of the first such record, whatever calls without a parent follow.
C23_RootIsFirstParentlessCall ==
    IF RootsFed = {}
    THEN ParentCallFrame(runs[1]) = <<>>
    ELSE /\ Len(ParentCallFrame(runs[1])) = 1
         /\ ParentCallFrame(runs[1])[1].id = CallFramesFed[FirstRoot].id
         /\ \E k \in 1..Len(runs[1].calls) : runs[1].calls[k] = ParentCallFrame(runs[1])[1]

C23_Witness ==
    /\ Len(CallFramesFed) = 3
    /\ Truthy(CallFramesFed[1].parentID)
    /\ CallFramesFed[2] = [NoFrame EXCEPT !.type = EvCallProgress, !.id = <<"b">>]
    /\ CallFramesFed[3] = [NoFrame EXCEPT !.type = EvCallProgress, !.id = <<"a">>]
    /\ ParentCallFrame(runs[1]) = <<CallFramesFed[2]>>

\* C24: on a Run for which no request was made, text() and close() throw
\* the usage error, and the Run stays as it was, in Creating.
C24_NotStartedThrows ==
    (last.op \in {"text", "close"} /\ last.pre.req = 0 /\ last.pre.promise = 0)
        => /\ last.res = <<"throw">>
           /\ runs[last.run] = last.pre
           /\ runs[last.run].state = Creating
           /\ chans = <<>>

C24_Witness ==
    /\ last.op = "text"
    /\ last.pre.req = 0
    /\ last.res = <<"throw">>
    /\ runs[last.run].state = Creating

\* C25: close() on a started Run changes neither the state nor the stored
\* error of the Run: it only destroys the request.
C25_CloseKeepsState ==
    (last.op = "close" /\ last.pre.req # 0)
        => /\ last.res = <<"ok">>
           /\ runs[last.run] = last.pre
           /\ chans[last.ch].destroyed
           /\ chans[last.ch].settled = "pending" => TextResult(runs[last.run]) \in {"pending", "throw"}

C25_Witness ==
    /\ last.op = "close"
    /\ last.pre.state = Running
    /\ runs[last.run].state = Running
    /\ runs[last.run].err = <<>>
    /\ chans[last.ch].destroyed

\* C26: close() on a Run in Finished or Error does not throw and leaves the
\* state, the stored error and the output as they are; a further close()
\* changes nothing that the first has not changed.
C26_CloseOnTerminalIsNoOp ==
    (last.op = "close" /\ last.pre.state \in Terminal)
        => /\ last.res = <<"ok">>
           /\ runs[last.run].state = last.pre.state
           /\ runs[last.run].err = last.pre.err
           /\ runs[last.run].stdout = last.pre.stdout
           /\ [chans EXCEPT ![runs[last.run].req].destroyed = TRUE] = chans

C26_Witness ==
    /\ last.op = "close"
    /\ last.pre.state = Finished
    /\ last.res = <<"ok">>
    /\ chans[last.ch].phase = "ended"

\* C27: nextChat(input) on a Run in Continue or Error makes one request,
\* which is that of the new Run, before it returns; the new Run has the
\* tools of the Run it was made from, and the request carries them (a file
\* name as file, definitions as toolDefs) and carries input as its input.
C27_NextChatSubmitsSameTool ==
    (last.op = "nextChat" /\ Head(last.res) = "ok" /\ last.pre.state \in {Continue, Error})
        => LET new == last.res[2]
               body == chans[last.ch].body
               tools == last.pre.tools
           IN /\ Len(chans) = last.made[2] + 1
              /\ last.ch = Len(chans)
              /\ \A c \in ChanIds : chans[c].run = new <=> c = last.ch
              /\ runs[new].req = last.ch
              /\ runs[new].promise = last.ch
              /\ runs[new].tools = tools
              /\ body[2] = last.arg
              /\ body[3] = IF tools.sort = "string" THEN <<"file", "t">>
                            ELSE <<"toolDefs", "[", "t", "]">>

C27_Witness ==
    /\ last.op = "nextChat"
    /\ Head(last.res) = "ok"
    /\ last.pre.state = Continue
    /\ last.pre.tools.sort = "def"
    /\ last.arg = <<"b">>
    /\ chans[last.ch].body[3] = <<"toolDefs", "[", "t", "]">>

\* C28: with no instance closed twice, a close terminates the subprocess
\* exactly when the instance closed is the last one open: closing the last
\* open instance leaves no subprocess alive, closing any other instance
\* leaves the subprocesses, serverProcess and serverURL as they were, and no
\* other step ends a subprocess.
C28_LastCloseTerminates ==
    [][LET closed == facade'.op = "close"
           wasLast == OpenFacades = {facade'.arg}
       IN /\ (closed /\ wasLast) => \A p \in ProcIds : ~facade'.procs[p].alive
          /\ (closed /\ ~wasLast) =>
                 /\ facade'.procs = facade.procs
                 /\ facade'.serverProcess = facade.serverProcess
                 /\ facade'.serverURL = facade.serverURL
          /\ (\E p \in AliveProcs : ~facade'.procs[p].alive) => (closed /\ wasLast)]_vars

C28_Witness ==
    /\ facade.op = "close"
    /\ Len(facade.closes) >= 2
    /\ OpenFacades = {}
    /\ \A f \in FacadeIds : facade.closes[f] = 1
    /\ facade.procs # <<>>
    /\ AliveProcs = {}

\* C29: no two subprocesses are alive at once, and a construction while
\* another instance is open spawns nothing and leaves serverURL as it was.
C29_OneSubprocessReused ==
    [][/\ Cardinality(AliveProcs) <= 1
       /\ (facade'.op = "construct" /\ facade' # facade /\ OpenFacades # {}) =>
              /\ facade'.procs = facade.procs
              /\ facade'.serverURL = facade.serverURL]_vars

\* C30: with GPTSCRIPT_URL set no subprocess is ever spawned.
C30_NoSpawnWithURL == facade.env.url => facade.procs = <<>>

\* C36: instanceCount is the number of instances constructed and not yet
\* closed and is never negative, and while an instance is open the
\* subprocess that was spawned is alive, however often another instance
\* was closed.
C36_CountIsOpenFacades ==
    /\ facade.instanceCount = Cardinality(OpenFacades)
    /\ facade.instanceCount >= 0
    /\ (OpenFacades # {} /\ facade.procs # <<>>) => AliveProcs # {}

\* C40: while every instance that was constructed is closed, serverURL is
\* the placeholder that close() sets, also after the subprocess that was
\* killed has announced its address.
C40_PlaceholderAfterLastClose ==
    (facade.closes # <<>> /\ OpenFacades = {}) => facade.serverURL = BaseURL(facade.env)

\* C34: a record with a stderr field and a stdout field adds the text of
\* its stderr to the diagnostic output of the Run and changes nothing else:
\* not the state, the chat state, the calls or what the subscribers got.
C34_BothFieldsIsDiagnostic ==
    (last.op = "data" /\ \E p \in {<<>>, <<"a">>} : last.arg = Line(Rec(KBoth, p)))
        => LET p == SubSeq(last.arg, 3, Len(last.arg) - 2)
               buf(v) == IF v = Absent THEN <<>> ELSE v
           IN /\ buf(runs[last.run].stderr) = buf(last.pre.stderr) \o p
              /\ runs[last.run].state = last.pre.state
              /\ runs[last.run].chatState = last.pre.chatState
              /\ runs[last.run].calls = last.pre.calls
              /\ runs[last.run].delivered = last.pre.delivered

\* C35: a Run in Error has a stored error message that is not empty.
C35_ErrorHasMessage ==
    \A r \in RunIds : runs[r].state = Error => Truthy(runs[r].err)

\* C38: when the first chunk of a stream is one complete record (a
\* diagnostic, a primary output, an event or another JSON object), the
\* carry-over is empty after the data handler has run on it.
C38_NoCarryAfterRecord ==
    (/\ last.op = "data"
     /\ Len(chans[last.ch].fed) = 1
     /\ last.arg \in WholeChunks \cup {Line(Rec(KStderr, <<"a">>))})
        => chans[last.ch].frag = <<>>

C37_OneRequestPerRun ==
    \A r \in RunIds : Cardinality({c \in ChanIds : chans[c].run = r}) <= 1

\* C31: an operation of an instance has issued its request only if a health
\* check made by that instance has succeeded.
C31_NoRequestBeforeHealthCheck ==
    facade.call.pc = "sent" => facade.passed[facade.call.f]

C31_Witness ==
    /\ facade.call.pc = "sent"
    /\ facade.call.f = 2
    /\ facade.call.failures = 1
    /\ facade.ready = <<TRUE, TRUE>>

\* C32: an operation makes at most 20 health checks; it is still polling
\* only with fewer than 20 made, and when 20 have failed it has rejected
\* and issued no request.
C32_PollingBounded ==
    LET c == facade.call
    IN /\ c.attempts <= 20
       /\ c.failures <= c.attempts
       /\ c.pc = "poll" => c.attempts < 20
       /\ c.failures = 20 => c.pc = "rejected"
       /\ c.pc = "rejected" => (c.failures = 20 /\ c.url = <<>>)

C32_Witness ==
    /\ facade.call.pc = "rejected"
    /\ facade.call.attempts = 20
    /\ ~facade.ready[facade.call.f]

\* C33: with the engine a subprocess of the library, the request of an
\* operation of an instance goes to an engine that has the global options
\* that instance was constructed with.
C33_GlobalOptsApplied ==
    (facade.call.pc = "sent" /\ ~facade.env.disable)
        => facade.call.applied = facade.given[facade.call.f]

====
